---- MODULE Spec2Model ----
(***************************************************************************)
(* Model of src/baugesuch_reader.py: the text segmentation and field       *)
(* extraction engine for the Wuerenlos "Baugesuch" notice boxes.           *)
(*                                                                         *)
(* A text is a sequence of symbols.  A symbol is a string that stands for  *)
(* either ONE character of the Python string (whitespace, punctuation, a   *)
(* letter, a digit) or one whole word whose letters no pattern of the      *)
(* program looks into (an "opaque word", e.g. "Baugesuchspublikation").    *)
(* Two adjacent word symbols are glued: there is no word boundary between  *)
(* them.  Characters outside ASCII are written as entities: "&uuml;" is    *)
(* u-umlaut, "&Uuml;" is U-umlaut, "&shy;" is the soft hyphen U+00AD,      *)
(* "&#383;" is the long s U+017F, "&ndash;" is the en dash.                *)
(***************************************************************************)
EXTENDS Integers, Sequences, FiniteSets, TLC

VARIABLES
    pc,          \* position in the operation under way
    pdf_is_file, \* os.path.isfile(pdf_path)
    text_layer,  \* what _read_text_layer returns for the page
    ocr,         \* what the OCR path does if it is asked: text or an exception
    page_text,   \* parse_baugesuch_from_pdf: page_text
    boxes,       \* parse_baugesuch_from_pdf: boxes (municipality-filtered)
    candidates,  \* parse_baugesuch_from_pdf: candidates (fallback path)
    entries,     \* parse_baugesuch_from_pdf: entries
    fs,          \* the file system: what has been created / written
    raised,      \* the exception that left the top-level call, or "none"
    ret,         \* the value the top-level call returned
    input,       \* argument of the pure function under check
    output       \* its results, in call order

vars == <<pc, pdf_is_file, text_layer, ocr, page_text, boxes, candidates,
          entries, fs, raised, ret, input, output>>

(***************************************************************************)
(* Characters and character classes                                        *)
(***************************************************************************)
SP  == " "
TAB == "\t"
NL  == "\n"
CR  == "\r"
HY  == "-"
SHY == "&shy;"

\* Python's \s and str.strip() whitespace, as far as the alphabet has it
WsChars == {SP, TAB, NL, CR}

\* punctuation of the alphabet: neither \s nor \w
PunctChars == {HY, SHY, ":", ",", ".", ";", "(", ")", "&ndash;", "&middot;", "&rsquo;"}

IsWs(c) == c \in WsChars

\* \w : letters, digits, opaque words
IsWordSym(c) == c \notin WsChars /\ c \notin PunctChars

(***************************************************************************)
(* Sequence helpers                                                        *)
(***************************************************************************)
Drop(s, n) == SubSeq(s, n + 1, Len(s))
Take(s, n) == SubSeq(s, 1, n)

\* the pieces ps[lo..hi] one after the other; halving the range keeps the
\* evaluation shallow on long texts
RECURSIVE FlattenRange(_, _, _)
FlattenRange(ps, lo, hi) ==
    IF lo > hi THEN <<>>
    ELSE IF lo = hi THEN ps[lo]
    ELSE FlattenRange(ps, lo, (lo + hi) \div 2)
         \o FlattenRange(ps, (lo + hi) \div 2 + 1, hi)

Concat(ss) == FlattenRange(ss, 1, Len(ss))

\* the least and the greatest of a set of positions, 0 when it is empty
FirstOf(S) == IF S = {} THEN 0 ELSE CHOOSE i \in S : \A j \in S : i <= j
LastOf(S)  == IF S = {} THEN 0 ELSE CHOOSE i \in S : \A j \in S : j <= i

\* all sequences of at most n elements of S
SeqsUpTo(S, n) == UNION {[1..k -> S] : k \in 0..n}

\* s[i..] starts with the symbols of p
StartsWithAt(s, i, p) ==
    /\ i + Len(p) - 1 <= Len(s)
    /\ \A k \in 1..Len(p) : s[i + k - 1] = p[k]

\* the symbols of p occur in s, contiguously (Python: p in s)
Contains(s, p) == \E i \in 1..(Len(s) - Len(p) + 1) : StartsWithAt(s, i, p)

\* number of leading whitespace symbols of s from position i on
RECURSIVE WsRun(_, _)
WsRun(s, i) == IF i <= Len(s) /\ IsWs(s[i]) THEN 1 + WsRun(s, i + 1) ELSE 0

\* number of whitespace symbols of s that end at position i
RECURSIVE WsRunBack(_, _)
WsRunBack(s, i) == IF i >= 1 /\ IsWs(s[i]) THEN 1 + WsRunBack(s, i - 1) ELSE 0

\* the maximal whitespace run around the whitespace symbol s[i]: its first
\* position and its length
WsRunStart(s, i) == i - WsRunBack(s, i) + 1
WsRunLen(s, i)   == WsRunBack(s, i) + WsRun(s, i) - 1

\* str.strip()
RECURSIVE LStrip(_)
LStrip(s) == IF Len(s) > 0 /\ IsWs(s[1]) THEN LStrip(Tail(s)) ELSE s
RECURSIVE RStrip(_)
RStrip(s) == IF Len(s) > 0 /\ IsWs(s[Len(s)]) THEN RStrip(Take(s, Len(s) - 1)) ELSE s
Strip(s) == RStrip(LStrip(s))

(***************************************************************************)
(* Whitespace substitutions (the precompiled patterns)                     *)
(***************************************************************************)
\* RE_SOFT_HYPH.sub("", s)
SubSoftHyph(s) == SelectSeq(s, LAMBDA c : c # SHY)

\* RE_HYPHEN_NL.sub("", s): every hyphen with a newline right after it goes,
\* with that newline (the two symbols differ, so no two matches overlap)
SubHyphenNl(s) ==
    Concat([i \in 1..Len(s) |->
        IF \/ s[i] = HY /\ i < Len(s) /\ s[i + 1] = NL
           \/ s[i] = NL /\ i > 1 /\ s[i - 1] = HY
        THEN <<>>
        ELSE <<s[i]>>])

\* s.replace("\r", "\n")
ReplaceCr(s) == [i \in 1..Len(s) |-> IF s[i] = CR THEN NL ELSE s[i]]

\* length of the run of symbols of class S starting at s[i]
RECURSIVE RunOf(_, _, _)
RunOf(s, i, S) == IF i <= Len(s) /\ s[i] \in S THEN 1 + RunOf(s, i + 1, S) ELSE 0

\* RE_SPACES.sub(" ", s): every run [ \t]+ becomes one space
SubSpaces(s) ==
    Concat([i \in 1..Len(s) |->
        IF s[i] \notin {SP, TAB} THEN <<s[i]>>
        ELSE IF i > 1 /\ s[i - 1] \in {SP, TAB} THEN <<>>
        ELSE <<SP>>])

\* RE_ML_NL.sub("\n\n", s): every run \n{2,} becomes two newlines
SubMlNl(s) ==
    Concat([i \in 1..Len(s) |->
        IF s[i] = NL /\ i >= 3 /\ s[i - 1] = NL /\ s[i - 2] = NL THEN <<>>
        ELSE <<s[i]>>])

\* _collapse_text
collapse_text(s) ==
    IF Len(s) = 0 THEN <<>>
    ELSE Strip(SubMlNl(SubSpaces(ReplaceCr(SubHyphenNl(SubSoftHyph(s))))))

(***************************************************************************)
(* SpecCollapse: _collapse_text applied once and then to its own result    *)
(***************************************************************************)
MaxCollapseLen == 3

CollapseAlphabet == {"a", HY, NL, CR, SP, TAB, SHY}

\* nothing created, nothing written (json: <<>>, or <<entries>> once written)
FsEmpty == [out_dir |-> FALSE, png |-> FALSE, debug |-> FALSE, json |-> <<>>]

\* the orchestrator is not running: the pure-function specifications
IdleOrchestrator ==
    /\ pdf_is_file = FALSE /\ text_layer = <<>> /\ ocr = <<>>
    /\ page_text = <<>> /\ boxes = <<>> /\ candidates = <<>> /\ entries = <<>>
    /\ fs = FsEmpty /\ raised = "none" /\ ret = <<>>

orchestratorVars == <<pdf_is_file, text_layer, ocr, page_text, boxes, candidates,
                      entries, fs, raised, ret>>

InitCollapse ==
    /\ IdleOrchestrator
    /\ pc = "call"
    /\ input \in SeqsUpTo(CollapseAlphabet, MaxCollapseLen)
    /\ output = <<>>

CollapseOnce ==
    /\ pc = "call"
    /\ output' = <<collapse_text(input)>>
    /\ pc' = "once"
    /\ UNCHANGED <<input, orchestratorVars>>

CollapseAgain ==
    /\ pc = "once"
    /\ output' = Append(output, collapse_text(output[1]))
    /\ pc' = "twice"
    /\ UNCHANGED <<input, orchestratorVars>>

NextCollapse == CollapseOnce \/ CollapseAgain

SpecCollapse == InitCollapse /\ [][NextCollapse]_vars

\* C6 (as claimed): normalization is idempotent,
\* _collapse_text(_collapse_text(x)) = _collapse_text(x) for every text x.
C6_CollapseIdempotent == pc = "twice" => output[2] = output[1]

(***************************************************************************)
(* MunicipalityFilter: RE_WURENLOS, RE_PLZ_5436, _looks_like_wurenlos      *)
(***************************************************************************)
\* the letters of the words whose letters a pattern looks into; every other
\* word symbol is opaque and counts as one word character
Spelling(sym) ==
    CASE sym = "W&uuml;renlos" -> <<"W", "&uuml;", "r", "e", "n", "l", "o", "s">>
      [] sym = "W&Uuml;RENLOS" -> <<"W", "&Uuml;", "R", "E", "N", "L", "O", "S">>
      [] sym = "Wurenlos"      -> <<"W", "u", "r", "e", "n", "l", "o", "s">>
      [] sym = "WURENLOS"      -> <<"W", "U", "R", "E", "N", "L", "O", "S">>
      [] sym = "Wuerenlos"     -> <<"W", "u", "e", "r", "e", "n", "l", "o", "s">>
      [] sym = "Wrenlos"       -> <<"W", "r", "e", "n", "l", "o", "s">>
      [] sym = "5436"          -> <<"5", "4", "3", "6">>
      [] OTHER                 -> <<sym>>

\* the characters of a text
Expand(t) == Concat([i \in 1..Len(t) |-> Spelling(t[i])])

\* re.I: the lower-case form of a character
Lower(c) ==
    CASE c = "W" -> "w" [] c = "U" -> "u" [] c = "E" -> "e" [] c = "R" -> "r"
      [] c = "N" -> "n" [] c = "L" -> "l" [] c = "O" -> "o" [] c = "S" -> "s"
      [] c = "&Uuml;" -> "&uuml;"
      [] OTHER -> c

\* \b at the gap before cs[i] (i in 1..Len+1)
WordBoundary(cs, i) ==
    LET before == i > 1 /\ IsWordSym(cs[i - 1])
        after  == i <= Len(cs) /\ IsWordSym(cs[i])
    IN  before # after

\* the pattern p (lower case) matches cs at i, ignoring case
MatchesAtI(cs, i, p) ==
    /\ i + Len(p) - 1 <= Len(cs)
    /\ \A k \in 1..Len(p) : Lower(cs[i + k - 1]) = p[k]

\* the strings of w(?:ue)?r(?:en)?los
WurenlosForms ==
    {<<"w">> \o ue \o <<"r">> \o en \o <<"l", "o", "s">> :
        ue \in {<<>>, <<"u", "e">>}, en \in {<<>>, <<"e", "n">>}}

\* RE_WURENLOS.search(cs) is not None
RE_WURENLOS_search(cs) ==
    \E i \in 1..Len(cs) : \E p \in WurenlosForms :
        /\ MatchesAtI(cs, i, p)
        /\ WordBoundary(cs, i)
        /\ WordBoundary(cs, i + Len(p))

\* RE_PLZ_5436.search(cs) is not None
RE_PLZ_5436_search(cs) ==
    \E i \in 1..Len(cs) :
        /\ StartsWithAt(cs, i, <<"5", "4", "3", "6">>)
        /\ WordBoundary(cs, i)
        /\ WordBoundary(cs, i + 4)

\* _looks_like_wurenlos
looks_like_wurenlos(t) ==
    LET cs == Expand(t) IN RE_WURENLOS_search(cs) \/ RE_PLZ_5436_search(cs)

(***************************************************************************)
(* SpecMatch: _looks_like_wurenlos applied to a short text                 *)
(***************************************************************************)
MaxMatchLen == 3

NameWords == {"W&uuml;renlos", "W&Uuml;RENLOS", "Wurenlos", "Wuerenlos", "Wrenlos"}

MatchAlphabet == NameWords \cup {"5436", "7", SP, ",", "Gemeinde"}

InitMatch ==
    /\ IdleOrchestrator
    /\ pc = "call"
    /\ input \in SeqsUpTo(MatchAlphabet, MaxMatchLen)
    /\ output = <<>>

LooksLikeCall ==
    /\ pc = "call"
    /\ output' = <<looks_like_wurenlos(input)>>
    /\ pc' = "ret"
    /\ UNCHANGED <<input, orchestratorVars>>

NextMatch == LooksLikeCall

SpecMatch == InitMatch /\ [][NextMatch]_vars

\* the spellings of the municipality's name the claim lists, in lower case
ClaimedNameSpellings ==
    {<<"w", "&uuml;", "r", "e", "n", "l", "o", "s">>,
     <<"w", "u", "r", "e", "n", "l", "o", "s">>,
     <<"w", "u", "e", "r", "e", "n", "l", "o", "s">>}

\* the text holds one of the claimed spellings as a word, in any letter case
HasClaimedName(cs) ==
    \E i \in 1..Len(cs) : \E p \in ClaimedNameSpellings :
        MatchesAtI(cs, i, p) /\ WordBoundary(cs, i) /\ WordBoundary(cs, i + Len(p))

\* C5 (as claimed): matchesTarget is true for every text that holds the
\* municipality's name in any of its spellings (W&uuml;renlos, Wurenlos,
\* Wuerenlos, any case) or the postal code 5436 as a separate token.
C5_MatchesEverySpelling ==
    pc = "ret" =>
        ((HasClaimedName(Expand(input)) \/ RE_PLZ_5436_search(Expand(input)))
            => output[1] = TRUE)

(***************************************************************************)
(* BoxLocator: HDR_RAW, FTR_RAW, RE_BOX, RE_HEADER_LINE, _find_boxes_in_text*)
(***************************************************************************)
\* one-word spellings of the header phrase (alternatives 2 and 3 of HDR_RAW)
HdrWords == {"Baugesuchspublikation", "Baugesuchspublication"}

\* length of the match of HDR_RAW at t[i], 0 if there is none; the first
\* alternative, Baugesuch\s*spublikation, also takes the two-word form
HDR_RAW_at(t, i) ==
    IF i > Len(t) THEN 0
    ELSE IF t[i] \in HdrWords THEN 1
    ELSE IF t[i] = "Baugesuch"
            /\ i + 1 + WsRun(t, i + 1) <= Len(t)
            /\ t[i + 1 + WsRun(t, i + 1)] = "spublikation"
         THEN 2 + WsRun(t, i + 1)
    ELSE 0

\* length of the match of HDR_RAW\b at t[i], 0 if there is none
HDR_B_at(t, i) ==
    LET n == HDR_RAW_at(t, i) IN IF n > 0 /\ WordBoundary(t, i + n) THEN n ELSE 0

\* the two words of the footer phrase, re.I and [&Uuml;U]
FtrFirstWords  == {"BAUVERWALTUNG", "Bauverwaltung"}
FtrSecondWords == {"W&Uuml;RENLOS", "WURENLOS", "W&uuml;renlos", "Wurenlos"}

\* length of the match of FTR_RAW at t[i], 0 if there is none
FTR_RAW_at(t, i) ==
    IF i > Len(t) \/ i < 1 THEN 0
    ELSE LET w == WsRun(t, i + 1) IN
         IF /\ t[i] \in FtrFirstWords
            /\ w >= 1
            /\ i + 1 + w <= Len(t)
            /\ t[i + 1 + w] \in FtrSecondWords
         THEN 2 + w
         ELSE 0

\* first position j >= from where FTR_RAW matches, 0 if there is none
FirstFooterFrom(t, from) == FirstOf({j \in from..Len(t) : FTR_RAW_at(t, j) > 0})

\* first position j >= from where HDR_RAW matches, 0 if there is none
FirstHeaderFrom(t, from) == FirstOf({j \in from..Len(t) : HDR_RAW_at(t, j) > 0})

\* the mutant of RE_BOX_match_at: greedy .* runs to the LAST footer
LastFooterFrom(t, from) == LastOf({j \in from..Len(t) : FTR_RAW_at(t, j) > 0})

RE_BOX_match_at_greedy(t, i) ==
    LET n == HDR_B_at(t, i)
        j == IF n > 0 THEN LastFooterFrom(t, i + n) ELSE 0
    IN  IF j > 0 THEN j + FTR_RAW_at(t, j) - 1 ELSE 0

\* RE_BOX = HDR_RAW \b .*? FTR_RAW with re.S: the end of the match that
\* starts at t[i], 0 if there is none there
RE_BOX_match_at(t, i) ==
    LET n == HDR_B_at(t, i)
        j == IF n > 0 THEN FirstFooterFrom(t, i + n) ELSE 0
    IN  IF j > 0 THEN j + FTR_RAW_at(t, j) - 1 ELSE 0

\* RE_BOX.findall(t): the matches, leftmost first, each search resuming at
\* the end of the match before
RECURSIVE RE_BOX_findall(_, _)
RE_BOX_findall(t, from) ==
    LET p == FirstOf({i \in from..Len(t) : RE_BOX_match_at(t, i) > 0}) IN
    IF p = 0 THEN <<>>
    ELSE <<SubSeq(t, p, RE_BOX_match_at(t, p))>>
         \o RE_BOX_findall(t, RE_BOX_match_at(t, p) + 1)

\* RE_HEADER_LINE.sub("", b, count=1): ^HDR_RAW\b\s* removed
RE_HEADER_LINE_sub(b) ==
    LET n == HDR_B_at(b, 1) IN
    IF n > 0 THEN Drop(b, n + WsRun(b, n + 1)) ELSE b

\* _find_boxes_in_text
find_boxes_in_text(txt) ==
    LET t    == collapse_text(txt)
        hits == RE_BOX_findall(t, 1)
    IN  [k \in 1..Len(hits) |-> Strip(RE_HEADER_LINE_sub(hits[k]))]

(***************************************************************************)
(* SpecBoxes: _find_boxes_in_text applied to a short text                  *)
(***************************************************************************)
MaxBoxChunks == 5

BoxChunks ==
    {<<"Baugesuchspublikation", SP>>, <<"Baugesuch", SP, "spublikation">>,
     <<"BAUVERWALTUNG", SP, "W&Uuml;RENLOS">>, <<"Bauverwaltung", NL, "Wurenlos">>,
     <<SP>>, <<"x">>}

InitBoxes ==
    /\ IdleOrchestrator
    /\ pc = "call"
    /\ \E cs \in SeqsUpTo(BoxChunks, MaxBoxChunks) : input = Concat(cs)
    /\ output = <<>>

FindBoxesCall ==
    /\ pc = "call"
    /\ output' = find_boxes_in_text(input)
    /\ pc' = "ret"
    /\ UNCHANGED <<input, orchestratorVars>>

NextBoxes == FindBoxesCall

SpecBoxes == InitBoxes /\ [][NextBoxes]_vars

\* the text holds a header phrase at some position
HasHeader(b) == \E i \in 1..Len(b) : HDR_B_at(b, i) > 0

\* the footer matches of b
FooterStarts(b) == {i \in 1..Len(b) : FTR_RAW_at(b, i) > 0}

\* b ends with a footer phrase and holds no other one
OnlyTerminatingFooter(b) ==
    /\ Cardinality(FooterStarts(b)) = 1
    /\ \A i \in FooterStarts(b) : i + FTR_RAW_at(b, i) - 1 = Len(b)

\* the boxes bs[k..] are, in this order and without overlap, what follows a
\* header phrase of t at or after position from, up to the end of a footer
RECURSIVE EmbedsInOrder(_, _, _, _)
EmbedsInOrder(t, from, bs, k) ==
    IF k > Len(bs) THEN TRUE
    ELSE \E p \in from..Len(t) : \E e \in p..Len(t) :
            /\ HDR_B_at(t, p) > 0
            /\ p + HDR_B_at(t, p) <= e
            /\ Strip(SubSeq(t, p + HDR_B_at(t, p), e)) = bs[k]
            /\ EmbedsInOrder(t, e + 1, bs, k + 1)

\* a header phrase of t with a footer phrase somewhere after it
HasHeaderFooterPair(t) ==
    \E p \in 1..Len(t) : \E j \in 1..Len(t) :
        HDR_B_at(t, p) > 0 /\ j >= p + HDR_B_at(t, p) /\ FTR_RAW_at(t, j) > 0

LABELS == {"Bauherrschaft", "Bauvorhaben", "Lage", "Zone", "Zusatzgesuch"}

\* the words RE_LABELS_POS (re.I, no \b) takes for a label: the five names in
\* any letter case, also as the tail of a longer word ("Bau" "zone",
\* "Siloan" "lage": two glued symbols).  Under re.I the letter s of the
\* pattern also matches the long s U+017F.
LabelWords ==
    LABELS \cup {"BAUHERRSCHAFT", "lage", "zone", "Bauherr&#383;chaft"}

\* str.title() of a matched label: first letter upper, the others lower;
\* the long s is a lower-case letter already and stays
Title(w) ==
    CASE w = "BAUHERRSCHAFT" -> "Bauherrschaft"
      [] w = "lage" -> "Lage"
      [] w = "zone" -> "Zone"
      [] OTHER -> w

\* the mutant of Title: the matched text taken as it is, without .title()
TitleAsMatched(w) == w

\* length of the match of RE_LABELS_POS at core[i], 0 if there is none
RE_LABELS_POS_at(core, i) ==
    IF i > Len(core) \/ core[i] \notin LabelWords THEN 0
    ELSE LET w == WsRun(core, i + 1) IN
         IF i + 1 + w <= Len(core) /\ core[i + 1 + w] = ":" THEN 2 + w ELSE 1 + w

\* RE_LABELS_POS.finditer(core): the starts of the matches, in order
RE_LABELS_POS_finditer(core) ==
    SelectSeq([i \in 1..Len(core) |-> i], LAMBDA i : RE_LABELS_POS_at(core, i) > 0)

\* RE_JOIN_LINES.sub(" ", s): a whitespace run holding a newline becomes " "
SubJoinLines(s) ==
    Concat([i \in 1..Len(s) |->
        IF ~IsWs(s[i]) THEN <<s[i]>>
        ELSE IF \A k \in WsRunStart(s, i)..(WsRunStart(s, i) + WsRunLen(s, i) - 1) :
                    s[k] # NL
             THEN <<s[i]>>
        ELSE IF i = WsRunStart(s, i) THEN <<SP>>
        ELSE <<>>])

\* words that begin with an upper-case letter [A-Z&Auml;&Ouml;&Uuml;]
UpperInitialWords ==
    {"Baugesuchspublikation", "Baugesuchspublication", "Baugesuch",
     "BAUVERWALTUNG", "Bauverwaltung", "W&Uuml;RENLOS", "WURENLOS",
     "W&uuml;renlos", "Wurenlos", "Wuerenlos", "Wrenlos", "Gemeinde",
     "Bauherrschaft", "Bauvorhaben", "Lage", "Zone", "Zusatzgesuch",
     "BAUHERRSCHAFT", "Bauherr&#383;chaft", "Gesuchsauf", "Ausserhalb",
     "Bau", "Landschaftsschutz", "Wald", "Erweiterung", "Siloan", "Silolan",
     "Umnutzung", "Stall", "Milchkuhboxen", "Neubau", "Parzelle", "Plan",
     "B&uuml;ntenstrasse", "B&uuml;nternstrasse", "Bachstrasse", "Muster",
     "Hans", "Max", "Departement", "Verkehr", "Umwelt", "Garage"}

\* words that do not end with a lower-case letter [a-z&auml;&ouml;&uuml;&szlig;]
NotLowerFinalWords ==
    {"BAUVERWALTUNG", "W&Uuml;RENLOS", "WURENLOS", "BAUHERRSCHAFT",
     "5436", "7", "12", "345"}

StartsUpper(c) == c \in UpperInitialWords
EndsLower(c)   == IsWordSym(c) /\ c \notin NotLowerFinalWords

\* RE_CAMEL_GAP.sub(" ", s): a space between a lower-case letter and an
\* upper-case letter that follows it directly
SubCamelGap(s) ==
    Concat([i \in 1..Len(s) |->
        IF i < Len(s) /\ EndsLower(s[i]) /\ StartsUpper(s[i + 1]) THEN <<s[i], SP>>
        ELSE <<s[i]>>])

\* str.strip(chars)
RECURSIVE StripChars(_, _)
StripChars(s, cs) ==
    IF Len(s) > 0 /\ s[1] \in cs THEN StripChars(Tail(s), cs)
    ELSE IF Len(s) > 0 /\ s[Len(s)] \in cs THEN StripChars(Take(s, Len(s) - 1), cs)
    ELSE s

\* the "compact normalization pass" on one sliced value
SliceValue(val) ==
    StripChars(SubCamelGap(SubSpaces(SubJoinLines(SubHyphenNl(SubSoftHyph(val))))),
               {SP, "&middot;", ";", ":", ","})

\* result[lab] = v on a dict: the key is added when it is not there
SetItem(d, k, v) == (k :> v) @@ d

\* the loop of _slice_fields_by_positions from match number i on
RECURSIVE SliceLoop(_, _, _, _)
SliceLoop(core, matches, i, result) ==
    IF i > Len(matches) THEN result
    ELSE LET m     == matches[i]
             lab   == Title(core[m])
             start == m + RE_LABELS_POS_at(core, m)
             end   == IF i + 1 <= Len(matches) THEN matches[i + 1] - 1 ELSE Len(core)
             val   == SubSeq(core, start, end)
         IN  SliceLoop(core, matches, i + 1, SetItem(result, lab, SliceValue(val)))

\* _slice_fields_by_positions
slice_fields_by_positions(core) ==
    SliceLoop(core, RE_LABELS_POS_finditer(core), 1, [lab \in LABELS |-> <<>>])

(***************************************************************************)
(* SpecSlice: _slice_fields_by_positions applied to a short core           *)
(***************************************************************************)
MaxSliceLen == 4

SliceAlphabet ==
    {"Bauherrschaft", "BAUHERRSCHAFT", "Bauherr&#383;chaft", "zone", "Lage",
     ":", SP, "Muster", "Bau"}

InitSlice ==
    /\ IdleOrchestrator
    /\ pc = "call"
    /\ input \in SeqsUpTo(SliceAlphabet, MaxSliceLen)
    /\ output = <<>>

SliceCall ==
    /\ pc = "call"
    /\ output' = <<slice_fields_by_positions(input)>>
    /\ pc' = "ret"
    /\ UNCHANGED <<input, orchestratorVars>>

NextSlice == SliceCall

SpecSlice == InitSlice /\ [][NextSlice]_vars

\* C8 (as claimed): for every core string the mapping returned by
\* _slice_fields_by_positions has exactly the 5 fixed keys, each with a
\* string value; no other key ever appears.
C8_ExactlyFiveKeys ==
    pc = "ret" =>
        /\ DOMAIN output[1] = LABELS
        /\ \A k \in DOMAIN output[1] : output[1][k] \in Seq(STRING)

(***************************************************************************)
(* _clean_spaces, len(), str.replace                                       *)
(***************************************************************************)
\* RE_MULTI_SPACE.sub(" ", s): a whitespace run \s{2,} becomes one space
SubMultiSpace(s) ==
    Concat([i \in 1..Len(s) |->
        IF ~IsWs(s[i]) \/ WsRunLen(s, i) < 2 THEN <<s[i]>>
        ELSE IF i = WsRunStart(s, i) THEN <<SP>>
        ELSE <<>>])

\* _clean_spaces
clean_spaces(s) == Strip(SubMultiSpace(SubSpaces(SubJoinLines(s))))

\* number of characters of a symbol: an entity is one character
SymLen(c) ==
    CASE c \in {SHY, "&uuml;", "&Uuml;", "&ndash;", "&middot;", "&rsquo;"} -> 1
      [] c \in {"W&uuml;renlos", "W&Uuml;RENLOS"} -> 8
      [] c = "Bauherr&#383;chaft" -> 13
      [] c = "B&uuml;ntenstrasse" -> 13
      [] c = "B&uuml;nternstrasse" -> 14
      [] OTHER -> Len(c)

\* len(s[lo..hi])
RECURSIVE StrLenRange(_, _, _)
StrLenRange(s, lo, hi) ==
    IF lo > hi THEN 0
    ELSE IF lo = hi THEN SymLen(s[lo])
    ELSE StrLenRange(s, lo, (lo + hi) \div 2) + StrLenRange(s, (lo + hi) \div 2 + 1, hi)

\* len(s)
StrLen(s) == StrLenRange(s, 1, Len(s))

\* s.replace(old, new) from position from on: leftmost, non-overlapping
RECURSIVE ReplaceFrom(_, _, _, _)
ReplaceFrom(s, old, new, from) ==
    LET p == FirstOf({i \in from..Len(s) : StartsWithAt(s, i, old)}) IN
    IF p = 0 THEN SubSeq(s, from, Len(s))
    ELSE SubSeq(s, from, p - 1) \o new \o ReplaceFrom(s, old, new, p + Len(old))

\* s.replace(old, new)
Replace(s, old, new) == ReplaceFrom(s, old, new, 1)

\* .replace("Bunten", "B&uuml;ntern").replace("B&uuml;nten", "B&uuml;ntern"):
\* the letters are inside a street word
ReplaceBunten(s) ==
    [i \in 1..Len(s) |->
        IF s[i] \in {"Buntenstrasse", "B&uuml;ntenstrasse"} THEN "B&uuml;nternstrasse"
        ELSE s[i]]

\* "Siloanlage" and "Silolanlage": the label pattern reads the tail "lage"
Siloanlage  == <<"Siloan", "lage">>
Silolanlage == <<"Silolan", "lage">>

\* s holds the symbol w at position i between word boundaries: \bw\b
WordAt(s, w, i) == s[i] = w /\ WordBoundary(s, i) /\ WordBoundary(s, i + 1)

\* first position >= from where s holds symbol w between word boundaries, 0 if none
FirstWordFrom(s, w, from) == FirstOf({i \in from..Len(s) : WordAt(s, w, i)})

\* re.match(r"^\s*Parzelle\b", s, flags=re.I) is not None
StartsWithParzelle(s) ==
    LET i == 1 + WsRun(s, 1) IN
    i <= Len(s) /\ s[i] = "Parzelle" /\ WordBoundary(s, i + 1)

(***************************************************************************)
(* A pattern is a sequence of items [syms, ws, many]: the item matches one *)
(* symbol of syms (a run of them when many), after \s* when ws.            *)
(***************************************************************************)
W(w)  == [syms |-> {w}, ws |-> TRUE,  many |-> FALSE]   \* \s* then the word
G(w)  == [syms |-> {w}, ws |-> FALSE, many |-> FALSE]   \* the word, directly
WS(S) == [syms |-> S,   ws |-> TRUE,  many |-> FALSE]
WM(S) == [syms |-> S,   ws |-> TRUE,  many |-> TRUE]

\* the position of the last symbol of the match of pat[k..] at s[i], 0 if none
RECURSIVE MatchPat(_, _, _, _)
MatchPat(s, i, pat, k) ==
    IF k > Len(pat) THEN i - 1
    ELSE LET j == IF pat[k].ws THEN i + WsRun(s, i) ELSE i
             n == IF pat[k].many THEN RunOf(s, j, pat[k].syms)
                  ELSE IF j <= Len(s) /\ s[j] \in pat[k].syms THEN 1 ELSE 0
         IN  IF n = 0 THEN 0 ELSE MatchPat(s, j + n, pat, k + 1)

\* first position >= from where pat matches, 0 if none
SearchPat(s, pat, from) == FirstOf({i \in from..Len(s) : MatchPat(s, i, pat, 1) > 0})

DigitWords  == {"5436", "7", "12", "345"}                    \* \d+
StreetWords == {"Bachstrasse", "Buntenstrasse", "B&uuml;ntenstrasse",
                "B&uuml;nternstrasse"}                       \* [A-Za-z..-]+strasse
TownWords   == {"W&uuml;renlos", "Wurenlos", "W&Uuml;RENLOS", "WURENLOS"} \* W[&uuml;u]renlos, re.I

(***************************************************************************)
(* FieldRescuer: _pick_longer, _upgrade_from_global_patterns               *)
(***************************************************************************)
ApplicantMargin == 8
ProjectMargin   == 5
LageMargin      == 4

\* the mutant of pick_longer: no margin
pick_longer_no_margin(current, candidate) ==
    LET c == Strip(candidate) cur == Strip(current) IN
    IF StrLen(c) > StrLen(cur) THEN c ELSE cur

\* the mutant of pick_longer: the candidate always wins
pick_candidate(current, candidate) == Strip(candidate)

\* _pick_longer
pick_longer(current, candidate) ==
    LET c == Strip(candidate) cur == Strip(current) IN
    IF StrLen(c) > StrLen(cur) + ApplicantMargin THEN c ELSE cur

\* [\w&Auml;&Ouml;&Uuml;&auml;&ouml;&uuml;&szlig;\-. ]: the characters of a name
IsNameSym(c) == IsWordSym(c) \/ c \in {HY, ".", SP}

RECURSIVE NameRun(_, _)
NameRun(s, i) == IF i <= Len(s) /\ IsNameSym(s[i]) THEN 1 + NameRun(s, i + 1) ELSE 0

\* ,\s*<street>\s*\d+,\s*5436\s*W[&uuml;u]renlos
ApplicantTail ==
    <<G(","), WS(StreetWords), WM(DigitWords), G(","), W("5436"), WS(TownWords)>>

\* group 1 of m_bh tried at s[g]: a letter, one or more name characters up
\* to the first comma, then the tail; the end of the match, 0 if none
ApplicantGroupAt(s, g) ==
    IF g > Len(s) \/ ~IsWordSym(s[g]) \/ s[g] \in DigitWords THEN 0
    ELSE LET q == g + NameRun(s, g) IN
         IF q <= Len(s) /\ s[q] = "," /\ StrLen(SubSeq(s, g, q - 1)) >= 2
         THEN MatchPat(s, q, ApplicantTail, 1)
         ELSE 0

\* where group 1 starts when the optional prefix (?:Bauherrschaft\s*:?\s*)?
\* is taken at s[p]; 0 if the prefix does not match there
ApplicantAfterPrefix(s, p) ==
    IF s[p] \notin {"Bauherrschaft", "BAUHERRSCHAFT", "Bauherr&#383;chaft"} THEN 0
    ELSE LET a == p + 1 + WsRun(s, p + 1) IN
         IF a <= Len(s) /\ s[a] = ":" THEN a + 1 + WsRun(s, a + 1) ELSE a

\* m_bh tried at s[p], with the optional prefix and then without it:
\* <<start, end>> of group 1, <<0, 0>> if there is no match at p
ApplicantMatchAt(s, p) ==
    LET g  == ApplicantAfterPrefix(s, p)
        e1 == IF g > 0 THEN ApplicantGroupAt(s, g) ELSE 0
        e2 == ApplicantGroupAt(s, p)
    IN  IF e1 > 0 THEN <<g, e1>>
        ELSE IF e2 > 0 THEN <<p, e2>>
        ELSE <<0, 0>>

\* m_bh = re.search(...): <<start, end>> of group 1 of the leftmost match
\* at or after from, <<0, 0>> if no match
ApplicantSearch(s, from) ==
    LET p == FirstOf({i \in from..Len(s) : ApplicantMatchAt(s, i)[1] > 0}) IN
    IF p = 0 THEN <<0, 0>> ELSE ApplicantMatchAt(s, p)

\* the rescued applicant: group 1 with the street-name misreadings replaced
ApplicantCandidate(b) ==
    LET m == ApplicantSearch(b, 1) IN
    IF m[1] = 0 THEN <<>> ELSE ReplaceBunten(SubSeq(b, m[1], m[2]))

\* Erweiterung\s*Silo[\w\-]*\s*anlage?\s*und\s*Umnutzung\s*Stall\s*
\* \(teilweise\)\s*in\s*Milchkuh[\w\-]*boxen
ProjectPhrase ==
    <<G("Erweiterung"), WS({"Siloan", "Silolan"}), G("lage"), W("und"),
      W("Umnutzung"), W("Stall"), W("("), G("teilweise"), G(")"), W("in"),
      W("Milchkuhboxen")>>

\* (?=.*?\bParzelle\b) after position e
ParzelleAhead(s, e) == FirstWordFrom(s, "Parzelle", e + 1) > 0

\* first m_bv: the leftmost match of the phrase that has Parzelle ahead
ProjectSearch1(s, from) ==
    LET p == FirstOf({i \in from..Len(s) :
                 /\ MatchPat(s, i, ProjectPhrase, 1) > 0
                 /\ ParzelleAhead(s, MatchPat(s, i, ProjectPhrase, 1))})
    IN  IF p = 0 THEN <<0, 0>> ELSE <<p, MatchPat(s, p, ProjectPhrase, 1)>>

\* first position >= from of symbol w, 0 if none
FirstSymFrom(s, w, from) == FirstOf({i \in from..Len(s) : s[i] = w})

\* second m_bv: (Erweiterung.*?Milchkuh[\w\-]*boxen)(?=.*?\bParzelle\b)
ProjectSearch2(s) ==
    LET p == FirstSymFrom(s, "Erweiterung", 1)
        e == IF p > 0 THEN FirstSymFrom(s, "Milchkuhboxen", p + 1) ELSE 0
    IN  IF e > 0 /\ ParzelleAhead(s, e) THEN <<p, e>> ELSE <<0, 0>>

\* the rescued project description, <<>> if neither pattern matches
ProjectCandidate(b) ==
    LET m1 == ProjectSearch1(b, 1)
        m  == IF m1[1] > 0 THEN m1 ELSE ProjectSearch2(b)
    IN  IF m[1] = 0 THEN <<>>
        ELSE Replace(SubSeq(b, m[1], m[2]), Siloanlage, Silolanlage)

\* Parzelle\s*\d+\s*\(Plan\s*\d+\)\s*,\s*<street>\s*\d+
LagePhrase ==
    <<G("Parzelle"), WM(DigitWords), W("("), G("Plan"), WM(DigitWords), G(")"),
      W(","), WS(StreetWords), WM(DigitWords)>>

LageCandidate(b) ==
    LET p == SearchPat(b, LagePhrase, 1) IN
    IF p = 0 THEN <<>>
    ELSE ReplaceBunten(SubSeq(b, p, MatchPat(b, p, LagePhrase, 1)))

AusserhalbBauzone == <<"Ausserhalb", SP, "Bau", "zone">>
Landschaftsschutzzone == <<"Landschaftsschutz", "zone">>
ZoneLandschaft == AusserhalbBauzone \o <<SP, "&ndash;", SP>> \o Landschaftsschutzzone
ZoneWald == AusserhalbBauzone \o <<SP, "&ndash;", SP, "Wald">>

\* re.search(r"Landschafts[\w\-]*zone", b, flags=re.I)
RECURSIVE WordOrHyphenRun(_, _)
WordOrHyphenRun(s, i) ==
    IF i <= Len(s) /\ (IsWordSym(s[i]) \/ s[i] = HY)
    THEN 1 + WordOrHyphenRun(s, i + 1) ELSE 0

HasLandschaftsZone(b) ==
    \E i \in 1..Len(b) :
        /\ b[i] = "Landschaftsschutz"
        /\ \E j \in (i + 1)..(i + WordOrHyphenRun(b, i + 1)) : b[j] \in {"zone", "Zone"}

\* Departement\s*Bau,\s*Verkehr\s*und\s*Umwelt
DepartementPhrase ==
    <<G("Departement"), W("Bau"), G(","), W("Verkehr"), W("und"), W("Umwelt")>>
DepartementCanonical ==
    <<"Departement", SP, "Bau", ",", SP, "Verkehr", SP, "und", SP, "Umwelt">>

\* the Lage branch of _upgrade_from_global_patterns
UpgradeLage(b, cur) ==
    LET cand == LageCandidate(b) IN
    IF cand = <<>> THEN cur
    ELSE IF \/ Contains(cur, <<"Erweiterung">>)
            \/ Contains(cur, <<"Umnutzung">>)
            \/ ~StartsWithParzelle(cur)
         THEN clean_spaces(cand)
    ELSE IF StrLen(cand) > StrLen(cur) + LageMargin THEN clean_spaces(cand)
    ELSE clean_spaces(cur)

\* the Bauherrschaft branch
UpgradeApplicant(b, fields) ==
    IF ApplicantCandidate(b) # <<>>
    THEN [fields EXCEPT !["Bauherrschaft"] = pick_longer(@, ApplicantCandidate(b))]
    ELSE fields

\* the Bauvorhaben branch
UpgradeProject(b, fields) ==
    IF /\ ProjectCandidate(b) # <<>>
       /\ StrLen(ProjectCandidate(b)) > StrLen(fields["Bauvorhaben"]) + ProjectMargin
    THEN [fields EXCEPT !["Bauvorhaben"] = clean_spaces(ProjectCandidate(b))]
    ELSE fields

\* the Zone branch
UpgradeZone(b, fields) ==
    IF Contains(b, AusserhalbBauzone) /\ HasLandschaftsZone(b)
    THEN [fields EXCEPT !["Zone"] = ZoneLandschaft]
    ELSE IF Contains(b, AusserhalbBauzone) /\ Contains(b, <<"Wald">>)
    THEN [fields EXCEPT !["Zone"] = ZoneWald]
    ELSE fields

\* the Zusatzgesuch branch
UpgradeZusatz(b, fields) ==
    IF SearchPat(b, DepartementPhrase, 1) > 0
    THEN [fields EXCEPT !["Zusatzgesuch"] = DepartementCanonical]
    ELSE fields

\* the branches in the order of the code, on the cleaned block b
UpgradeAll(b, fields) ==
    UpgradeZusatz(b, UpgradeZone(b,
        [UpgradeProject(b, UpgradeApplicant(b, fields))
            EXCEPT !["Lage"] = UpgradeLage(b, @)]))

\* the closing loop: every field through _clean_spaces
CleanFields(fields) == [k \in DOMAIN fields |-> clean_spaces(fields[k])]

\* _upgrade_from_global_patterns
upgrade_from_global_patterns(block, fields) ==
    CleanFields(UpgradeAll(clean_spaces(block), fields))

(***************************************************************************)
(* EntryNormalizer: _parse_entry                                           *)
(***************************************************************************)
MinApplicantLen == 20
MinProjectLen   == 25
MinLageLen      == 25

FooterCanonical == <<"BAUVERWALTUNG", SP, "W&Uuml;RENLOS">>

\* Gesuchsauflage\s+vom matches at block[i] ("Gesuchsauflage" is the two
\* glued symbols "Gesuchsauf" "lage": the label pattern reads its tail)
RE_GESUCHS_at(block, i) ==
    /\ StartsWithAt(block, i, <<"Gesuchsauf", "lage">>)
    /\ WsRun(block, i + 2) >= 1
    /\ i + 2 + WsRun(block, i + 2) <= Len(block)
    /\ block[i + 2 + WsRun(block, i + 2)] = "vom"

\* RE_GESUCHS.search(block): start of the leftmost match at or after from,
\* 0 if none
RE_GESUCHS_search(block, from) ==
    FirstOf({i \in from..Len(block) : RE_GESUCHS_at(block, i)})

\* step 1: [core, others], others running from the marker to the end of the
\* first footer after it, else to the next header, else to the end
CutOthers(block) ==
    LET s0 == RE_GESUCHS_search(block, 1) IN
    IF s0 = 0 THEN [core |-> block, others |-> <<>>]
    ELSE LET f == FirstFooterFrom(block, s0)
             h == FirstHeaderFrom(block, s0)
             e == IF f > 0 THEN f + FTR_RAW_at(block, f) - 1
                  ELSE IF h > 0 THEN h - 1
                  ELSE Len(block)
         IN  [core |-> Take(block, s0 - 1), others |-> SubSeq(block, s0, e)]

\* re.sub(r"(?i)(gemeinde)(?= *w[&uuml;u]renlos)", r"\1 ", s)
SubGemeinde(s) ==
    Concat([i \in 1..Len(s) |->
        IF /\ s[i] = "Gemeinde"
           /\ i + 1 + RunOf(s, i + 1, {SP}) <= Len(s)
           /\ s[i + 1 + RunOf(s, i + 1, {SP})] \in TownWords
        THEN <<s[i], SP>>
        ELSE <<s[i]>>])

\* re.split(r"\bParzelle\b", s, maxsplit=1)[0]
BeforeParzelle(s) ==
    LET i == FirstWordFrom(s, "Parzelle", 1) IN
    IF i = 0 THEN s ELSE Take(s, i - 1)

\* step 3, lines 297-301: the zone spelled canonically
NormalizeZone(block, fields) ==
    IF Contains(block, AusserhalbBauzone) /\ Contains(block, Landschaftsschutzzone)
    THEN [fields EXCEPT !["Zone"] = ZoneLandschaft]
    ELSE IF Contains(block, AusserhalbBauzone) /\ Contains(block, <<"Wald">>)
    THEN [fields EXCEPT !["Zone"] = ZoneWald]
    ELSE fields

\* step 3, lines 303-307: the replacements in Lage, Bauvorhaben, Bauherrschaft
NormalizeSpellings(fields) ==
    [fields EXCEPT
        !["Lage"] = Replace(SelectSeq(@, LAMBDA c : c # "&rsquo;"),
                            <<SP, HY, SP>>, <<SP, "&ndash;", SP>>),
        !["Bauvorhaben"] = Replace(@, Siloanlage, Silolanlage),
        !["Bauherrschaft"] = SubGemeinde(@)]

\* step 3, lines 309-311: the project description ends before Parzelle
CutAtParzelle(fields) ==
    IF Contains(fields["Bauvorhaben"], <<"Parzelle">>)
    THEN [fields EXCEPT !["Bauvorhaben"] = clean_spaces(BeforeParzelle(@))]
    ELSE fields

\* step 3: the fast-path normalizations of the sliced fields
NormalizeSliced(block, fields) ==
    CutAtParzelle(NormalizeSpellings(NormalizeZone(block, fields)))

\* step 4: needs_rescue
needs_rescue(block, fields) ==
    \/ StrLen(fields["Bauherrschaft"]) < MinApplicantLen
    \/ StrLen(fields["Bauvorhaben"]) < MinProjectLen
    \/ Contains(fields["Bauvorhaben"], <<"Siloan">>)
    \/ /\ Contains(block, <<"Parzelle">>)
       /\ Contains(block, <<"Plan">>)
       /\ Contains(block, <<"B&uuml;nternstrasse">>)
       /\ StrLen(fields["Lage"]) < MinLageLen
    \/ ~StartsWithParzelle(fields["Lage"])

\* RE_FOOTER_MULT.sub("BAUVERWALTUNG W&Uuml;RENLOS", o): a run of footer
\* phrases that follow each other directly becomes the canonical footer
RECURSIVE FooterRunEnd(_, _)
FooterRunEnd(s, i) ==
    IF FTR_RAW_at(s, i) > 0 THEN FooterRunEnd(s, i + FTR_RAW_at(s, i)) ELSE i

\* the substitution from position from on: each run starts at the leftmost
\* footer phrase left
RECURSIVE SubFooterMultFrom(_, _)
SubFooterMultFrom(s, from) ==
    LET p == FirstFooterFrom(s, from) IN
    IF p = 0 THEN SubSeq(s, from, Len(s))
    ELSE SubSeq(s, from, p - 1) \o FooterCanonical
         \o SubFooterMultFrom(s, FooterRunEnd(s, p))

SubFooterMult(s) == SubFooterMultFrom(s, 1)

\* lines 331-332: the footer appended when others holds none
EnsureFooter(o) ==
    IF Contains(o, FooterCanonical) THEN o ELSE o \o <<SP>> \o FooterCanonical

\* step 5: others on a single line with the footer
NormalizeOthers(others) ==
    IF others = <<>> THEN <<>>
    ELSE clean_spaces(EnsureFooter(SubFooterMult(
             Strip(SubSpaces(SubJoinLines(SubHyphenNl(SubSoftHyph(others))))))))

\* the fields after steps 1 to 3
SlicedFields(block) ==
    NormalizeSliced(block, slice_fields_by_positions(CutOthers(block).core))

\* step 4 on the sliced fields f
Rescue(block, f) ==
    IF needs_rescue(block, f) THEN upgrade_from_global_patterns(block, f) ELSE f

\* the fields after step 4
RescuedFields(block) == Rescue(block, SlicedFields(block))

\* the returned dict: the five fields cleaned, and others
EntryOf(g, others) ==
    [Bauherrschaft |-> g["Bauherrschaft"],
     Bauvorhaben   |-> g["Bauvorhaben"],
     Lage          |-> g["Lage"],
     Zone          |-> g["Zone"],
     Zusatzgesuch  |-> g["Zusatzgesuch"],
     others        |-> others]

\* _parse_entry
parse_entry(block) ==
    EntryOf(CleanFields(RescuedFields(block)),
            NormalizeOthers(CutOthers(block).others))

(***************************************************************************)
(* EntrySegmenter (fallback): _split_entries_by_labels                     *)
(***************************************************************************)
\* ([.:;])\s+(?=[A-Z&Auml;&Ouml;&Uuml;]) matches at page[i]
ParagraphAt(s, i) ==
    /\ s[i] \in {".", ":", ";"}
    /\ WsRun(s, i + 1) >= 1
    /\ i + 1 + WsRun(s, i + 1) <= Len(s)
    /\ StartsUpper(s[i + 1 + WsRun(s, i + 1)])

\* re.sub(r"([.:;])\s+(?=[A-Z&Auml;&Ouml;&Uuml;])", r"\1\n\n", page): the
\* whitespace run after the punctuation mark becomes two newlines
SubParagraphs(s) ==
    Concat([i \in 1..Len(s) |->
        IF ~IsWs(s[i]) THEN (IF ParagraphAt(s, i) THEN <<s[i], NL, NL>> ELSE <<s[i]>>)
        ELSE IF WsRunStart(s, i) > 1 /\ ParagraphAt(s, WsRunStart(s, i) - 1) THEN <<>>
        ELSE <<s[i]>>])

\* re.search(rf"\b{lab}\b", block) is not None
HasLabelWord(block, lab) == FirstWordFrom(block, lab, 1) > 0

\* the starts of \bBauherrschaft\b in page, in order
AnchorStarts(page) ==
    SelectSeq([i \in 1..Len(page) |-> i],
              LAMBDA i : WordAt(page, "Bauherrschaft", i))

\* the stripped text from each anchor to the next one, the last to the end
BlocksAt(page, starts) ==
    [i \in 1..Len(starts) |->
        Strip(SubSeq(page, starts[i],
                     IF i + 1 <= Len(starts) THEN starts[i + 1] - 1 ELSE Len(page)))]

\* the blocks of the page, before the label threshold
SegmentPage(page) == BlocksAt(page, AnchorStarts(page))

\* sum(1 for lab in LABELS if re.search(...)) >= 3
EnoughLabels(blk) == Cardinality({lab \in LABELS : HasLabelWord(blk, lab)}) >= 3

\* the mutant of split_entries_by_labels: no label threshold
split_entries_any_labels(page_text0) ==
    SegmentPage(SubParagraphs(collapse_text(page_text0)))

\* _split_entries_by_labels
split_entries_by_labels(page_text0) ==
    SelectSeq(SegmentPage(SubParagraphs(collapse_text(page_text0))), EnoughLabels)

(***************************************************************************)
(* Orchestrator: parse_baugesuch_from_pdf                                  *)
(***************************************************************************)
\* the mutant of LastTwo: the first two
FirstTwo(s) == IF Len(s) <= 2 THEN s ELSE Take(s, 2)

\* the mutant of LastTwo: the last one
LastOne(s) == IF Len(s) <= 1 THEN s ELSE Drop(s, Len(s) - 1)

\* s[-2:]
LastTwo(s) == IF Len(s) <= 2 THEN s ELSE Drop(s, Len(s) - 2)

\* the mutant of InputMissing: the check is not made
InputNeverMissing == FALSE

\* not os.path.isfile(pdf_path)
InputMissing == ~pdf_is_file

\* [b for b in ... if _looks_like_wurenlos(b)]
OnlyWurenlos(bs) == SelectSeq(bs, looks_like_wurenlos)

\* [_parse_entry(b) for b in bs]
ParseAll(bs) == [i \in 1..Len(bs) |-> parse_entry(bs[i])]

MaxPageChunks == 4

HdrSp == <<"Baugesuchspublikation", SP>>
FtrSp == <<"BAUVERWALTUNG", SP, "W&Uuml;RENLOS", NL>>
ApplMax ==
    <<"Bauherrschaft", ":", SP, "Muster", SP, "Max", ",", SP, "5436", SP,
      "W&uuml;renlos", NL>>
ApplHans == <<"Bauherrschaft", ":", SP, "Muster", SP, "Hans", NL>>
ProjLage ==
    <<"Bauvorhaben", ":", SP, "Neubau", SP, "Garage", NL, "Lage", ":", SP,
      "Parzelle", SP, "345", NL>>

\* what a page is made of: header and footer phrases, the postal code, a
\* labelled notice of another municipality and one of the target, and whole
\* boxes: two of the target and one of another municipality
PageChunks ==
    {HdrSp, FtrSp, <<"5436", SP>>,
     ApplHans \o ProjLage,
     ApplMax \o ProjLage,
     HdrSp \o ApplMax \o FtrSp,
     HdrSp \o ApplHans \o <<"Wuerenlos", SP>> \o FtrSp,
     HdrSp \o ApplHans \o FtrSp}

PageTexts == {Concat(cs) : cs \in SeqsUpTo(PageChunks, MaxPageChunks)}

\* what the OCR path does when it is asked: the rendering raises, the OCR
\* engine raises, or a text comes back
OcrOutcomes ==
    {[kind |-> "render_raises", text |-> <<>>],
     [kind |-> "ocr_raises", text |-> <<>>],
     [kind |-> "text", text |-> <<>>],
     [kind |-> "text", text |-> HdrSp \o ApplMax \o FtrSp \o HdrSp \o ApplMax \o FtrSp]}

OcrNotAsked == [kind |-> "not_asked", text |-> <<>>]

Init ==
    /\ pc = "start"
    /\ pdf_is_file \in BOOLEAN
    /\ text_layer \in PageTexts
    /\ ocr \in IF Strip(text_layer) = <<>> THEN OcrOutcomes ELSE {OcrNotAsked}
    /\ page_text = <<>>      \* <<>>: not acquired; <<t>>: the text t
    /\ boxes = <<>>
    /\ candidates = <<>>
    /\ entries = <<>>
    /\ fs = FsEmpty
    /\ raised = "none"
    /\ ret = <<>>            \* <<>>: nothing returned; <<es>>: the entries es
    /\ input = <<>>
    /\ output = <<>>

pureVars == <<input, output>>
envVars  == <<pdf_is_file, text_layer, ocr>>

\* lines 355-356
CheckInput ==
    /\ pc = "start"
    /\ IF InputMissing
       THEN raised' = "FileNotFoundError" /\ pc' = "failed"
       ELSE raised' = raised /\ pc' = "ensure_dir"
    /\ UNCHANGED <<envVars, page_text, boxes, candidates, entries, fs, ret, pureVars>>

\* line 358: _ensure_dir
EnsureDir ==
    /\ pc = "ensure_dir"
    /\ fs' = [fs EXCEPT !.out_dir = TRUE]
    /\ pc' = "extract"
    /\ UNCHANGED <<envVars, page_text, boxes, candidates, entries, raised, ret, pureVars>>

\* line 360: _extract_page_text_with_ocr_if_needed
ExtractText ==
    /\ pc = "extract"
    /\ \/ /\ Strip(text_layer) # <<>>
          /\ page_text' = <<text_layer>>
          /\ pc' = "debug"
          /\ UNCHANGED <<fs, raised>>
       \/ /\ Strip(text_layer) = <<>>
          /\ ocr.kind = "render_raises"
          /\ raised' = "RenderError"
          /\ pc' = "failed"
          /\ UNCHANGED <<fs, page_text>>
       \/ /\ Strip(text_layer) = <<>>
          /\ ocr.kind = "ocr_raises"
          /\ fs' = [fs EXCEPT !.png = TRUE]
          /\ raised' = "OcrError"
          /\ pc' = "failed"
          /\ UNCHANGED page_text
       \/ /\ Strip(text_layer) = <<>>
          /\ ocr.kind = "text"
          /\ fs' = [fs EXCEPT !.png = TRUE]
          /\ page_text' = <<ocr.text>>
          /\ pc' = "debug"
          /\ UNCHANGED raised
    /\ UNCHANGED <<envVars, boxes, candidates, entries, ret, pureVars>>

\* lines 361-362
WriteDebug ==
    /\ pc = "debug"
    /\ fs' = [fs EXCEPT !.debug = TRUE]
    /\ pc' = "find_boxes"
    /\ UNCHANGED <<envVars, page_text, boxes, candidates, entries, raised, ret, pureVars>>

\* line 364
FindBoxes ==
    /\ pc = "find_boxes"
    /\ boxes' = OnlyWurenlos(find_boxes_in_text(page_text[1]))
    /\ pc' = "select"
    /\ UNCHANGED <<envVars, page_text, candidates, entries, fs, raised, ret, pureVars>>

\* the mutant of PrimaryPath: a lone box is parsed too
PrimaryPathLoneBox ==
    /\ pc = "select"
    /\ Len(boxes) >= 1
    /\ entries' = ParseAll(LastTwo(boxes))
    /\ pc' = "primary"
    /\ UNCHANGED <<envVars, page_text, boxes, candidates, fs, raised, ret, pureVars>>

\* lines 367-369
PrimaryPath ==
    /\ pc = "select"
    /\ Len(boxes) >= 2
    /\ entries' = ParseAll(LastTwo(boxes))
    /\ pc' = "primary"
    /\ UNCHANGED <<envVars, page_text, boxes, candidates, fs, raised, ret, pureVars>>

\* the mutant of FallbackPath: the segmenter runs whatever the number of boxes
FallbackPathAnyCount ==
    /\ pc = "select"
    /\ candidates' = OnlyWurenlos(split_entries_by_labels(page_text[1]))
    /\ entries' = ParseAll(LastTwo(candidates'))
    /\ pc' = "fallback"
    /\ UNCHANGED <<envVars, page_text, boxes, fs, raised, ret, pureVars>>

\* lines 370-373
FallbackPath ==
    /\ pc = "select"
    /\ Len(boxes) < 2
    /\ candidates' = OnlyWurenlos(split_entries_by_labels(page_text[1]))
    /\ entries' = ParseAll(LastTwo(candidates'))
    /\ pc' = "fallback"
    /\ UNCHANGED <<envVars, page_text, boxes, fs, raised, ret, pureVars>>

\* lines 375-380
WriteOutput ==
    /\ pc \in {"primary", "fallback"}
    /\ entries' = LastTwo(entries)
    /\ fs' = [fs EXCEPT !.json = <<entries'>>]
    /\ ret' = <<entries'>>
    /\ pc' = IF pc = "primary" THEN "done_primary" ELSE "done_fallback"
    /\ UNCHANGED <<envVars, page_text, boxes, candidates, raised, pureVars>>

Next ==
    \/ CheckInput \/ EnsureDir \/ ExtractText \/ WriteDebug
    \/ FindBoxes \/ PrimaryPath \/ FallbackPath \/ WriteOutput

Spec == Init /\ [][Next]_vars

Done == pc \in {"done_primary", "done_fallback"}

\* the valid candidates of the path taken
ValidCandidates == IF pc = "done_primary" THEN boxes ELSE candidates

\* C1: the result has 0, 1 or 2 entries, and exactly 2 whenever the input
\* produced 2 or more valid candidates (municipality-matching boxes on the
\* primary path, municipality-matching segments on the fallback path).
C1_CapInvariant ==
    Done =>
        /\ Len(ret[1]) \in {0, 1, 2}
        /\ Len(ValidCandidates) >= 2 => Len(ret[1]) = 2
        /\ Len(ValidCandidates) < 2 => Len(ret[1]) = Len(ValidCandidates)
        /\ fs.json = ret

\* three or more matching segments on the fallback path, two entries returned
C1_Witness ==
    /\ pc = "done_fallback"
    /\ Len(candidates) >= 3
    /\ Len(ret[1]) = 2

\* the text the candidates of the path taken are cut from
DocText ==
    IF pc = "done_primary" THEN collapse_text(page_text[1])
    ELSE SubParagraphs(collapse_text(page_text[1]))

\* bs[k..] occur in t from position from on, one after the other
RECURSIVE OccursInOrder(_, _, _, _)
OccursInOrder(t, from, bs, k) ==
    IF k > Len(bs) THEN TRUE
    ELSE \E p \in from..(Len(t) - Len(bs[k]) + 1) :
            /\ StartsWithAt(t, p, bs[k])
            /\ OccursInOrder(t, p + Len(bs[k]), bs, k + 1)

\* C2: the output is the parse of the last two municipality-matching
\* candidates, the earlier one first; the candidates stand in the order of
\* the page text, and with more than two every one but the last two is dropped.
C2_LastTwoInDocumentOrder ==
    Done =>
        LET n == Len(ValidCandidates) IN
        /\ OccursInOrder(DocText, 1, ValidCandidates, 1)
        /\ n = 0 => ret[1] = <<>>
        /\ n = 1 => ret[1] = <<parse_entry(ValidCandidates[1])>>
        /\ n >= 2 => ret[1] = <<parse_entry(ValidCandidates[n - 1]),
                                parse_entry(ValidCandidates[n])>>

\* three or more matching boxes on the primary path, the first two not the
\* last two
C2_Witness ==
    /\ pc = "done_primary"
    /\ Len(boxes) >= 3
    /\ <<parse_entry(boxes[1]), parse_entry(boxes[2])>> # ret[1]

\* the text provider has no text: the text layer is blank and the OCR path
\* raises or comes back blank
NoTextAvailable ==
    /\ Strip(text_layer) = <<>>
    /\ ocr.kind \in {"render_raises", "ocr_raises"} \/ Strip(ocr.text) = <<>>

\* the call is over: it returned or an exception left it
Terminated == Done \/ pc = "failed"

\* C3: with an existing document and no text from the provider the
\* top-level call does not fail; it ends with zero boxes, zero entries and
\* an empty array written and returned.
C3_NoTextIsNotFatal ==
    (pdf_is_file /\ NoTextAvailable /\ Terminated) =>
        /\ raised = "none"
        /\ boxes = <<>> /\ entries = <<>>
        /\ ret = <<<<>>>> /\ fs.json = <<<<>>>>

\* C4: with no file at the input path the call fails with the
\* document-not-found failure before any other step: no text is acquired,
\* nothing is parsed, no directory, debug artifact or JSON file is written.
C4_MissingInputFailsFirst ==
    ~pdf_is_file =>
        /\ pc \in {"start", "failed"}
        /\ pc = "failed" => raised = "FileNotFoundError"
        /\ page_text = <<>> /\ boxes = <<>> /\ candidates = <<>> /\ entries = <<>>
        /\ fs = FsEmpty
        /\ ret = <<>>

\* the call on a missing document has failed
C4_Witness == ~pdf_is_file /\ pc = "failed" /\ raised = "FileNotFoundError"

(***************************************************************************)
(* _parse_entry on the boxes the locator hands over: a page is cut into    *)
(* boxes, the boxes of the municipality are kept, one of them is parsed.   *)
(* output records the block and the fields after slicing (steps 1 to 3),   *)
(* after the rescue pass (step 4) and in the returned entry.               *)
(***************************************************************************)
MaxEntryChunks == 4

BhLabel   == <<"Bauherrschaft", ":", SP>>
NameShort == <<"Muster", SP, "Max", NL>>
NameFull  ==
    <<"Muster", SP, "Max", ",", SP, "Buntenstrasse", SP, "7", ",", SP, "5436", SP,
      "W&uuml;renlos", NL>>
NameGemeinde ==
    <<"Gemeinde", SP, "W&uuml;renlos", ",", SP, "Bachstrasse", SP, "7", ",", SP,
      "5436", SP, "W&uuml;renlos", NL>>
ProjBoxen == <<"Bauvorhaben", ":", SP, "Erweiterung", SP, "Milchkuhboxen", NL>>
ProjFull  ==
    <<"Erweiterung", SP>> \o Siloanlage \o
    <<SP, "und", SP, "Umnutzung", SP, "Stall", SP, "(", "teilweise", ")", SP,
      "in", SP, "Milchkuhboxen", NL>>
\* a project description that names a parcel itself
ProjParz  ==
    <<"Bauvorhaben", ":", SP, "Erweiterung", SP, "Stall", SP, "auf", SP, "Parzelle",
      SP, "12", SP, "mit", SP, "Milchkuhboxen", NL>>
LageLine  == <<"Lage", ":", SP, "Parzelle", SP, "345", NL>>
Gesuchs   == <<"Gesuchsauf", "lage", SP, "vom", SP, "12", SP>>
\* a footer phrase broken over two lines by a hyphen and a carriage return
FtrBroken == <<"BAUVERWALTUNG", HY, CR, SP, "W&Uuml;RENLOS", SP>>

EntryChunks ==
    {BhLabel, NameShort, NameFull, NameGemeinde, ProjBoxen, ProjFull, ProjParz,
     LageLine, Gesuchs, FtrBroken}

\* a page with one notice between the header and the footer
EntryPages == {HdrSp \o Concat(cs) \o FtrSp : cs \in SeqsUpTo(EntryChunks, MaxEntryChunks)}

InitEntry ==
    /\ pc = "page"
    /\ input \in EntryPages
    /\ output = <<>>
    /\ pdf_is_file = FALSE /\ text_layer = <<>> /\ ocr = <<>>
    /\ page_text = <<>> /\ boxes = <<>> /\ candidates = <<>> /\ entries = <<>>
    /\ fs = FsEmpty /\ raised = "none" /\ ret = <<>>

\* line 364: the boxes of the municipality
LocateBoxes ==
    /\ pc = "page"
    /\ boxes' = OnlyWurenlos(find_boxes_in_text(input))
    /\ pc' = "boxes"
    /\ UNCHANGED <<envVars, page_text, candidates, entries, fs, raised, ret, input, output>>

\* lines 276-345: _parse_entry on one of the boxes
ParseEntryCall ==
    /\ pc = "boxes"
    /\ \E i \in 1..Len(boxes) :
          output' = [block   |-> boxes[i],
                     sliced  |-> SlicedFields(boxes[i]),
                     rescued |-> RescuedFields(boxes[i]),
                     entry   |-> parse_entry(boxes[i])]
    /\ pc' = "parsed"
    /\ UNCHANGED <<envVars, page_text, boxes, candidates, entries, fs, raised, ret, input>>

NextEntry == LocateBoxes \/ ParseEntryCall

SpecEntry == InitEntry /\ [][NextEntry]_vars

\* the number of places where p stands in s
Occurrences(s, p) == Cardinality({i \in 1..Len(s) : StartsWithAt(s, i, p)})

\* C9: a non-empty others field is a single line that holds the canonical
\* footer string exactly once.
C9_OthersHoldOneFooter ==
    (pc = "parsed" /\ output.entry.others # <<>>) =>
        /\ \A i \in 1..Len(output.entry.others) : output.entry.others[i] \notin {NL, CR}
        /\ Occurrences(output.entry.others, FooterCanonical) = 1

\* the rescue pass ran on the parsed block
Rescuing == pc = "parsed" /\ needs_rescue(output.block, output.sliced)

\* the applicant and project candidates the rescue pass reads in the block
BhCand == ApplicantCandidate(clean_spaces(output.block))
BvCand == ProjectCandidate(clean_spaces(output.block))

\* the candidate is there and longer than the current value by more than m
Beats(cand, cur, m) == cand # <<>> /\ StrLen(cand) > StrLen(cur) + m

\* C10 as stated: a field the candidate does not beat by its margin comes
\* out of the rescue pass exactly as it went in, and never shorter.
C10_RescueLeavesUnchanged ==
    Rescuing =>
        /\ ~Beats(BhCand, output.sliced["Bauherrschaft"], 8) =>
               output.rescued["Bauherrschaft"] = output.sliced["Bauherrschaft"]
        /\ ~Beats(BvCand, output.sliced["Bauvorhaben"], 5) =>
               output.rescued["Bauvorhaben"] = output.sliced["Bauvorhaben"]
        /\ StrLen(output.rescued["Bauherrschaft"]) >= StrLen(output.sliced["Bauherrschaft"])
        /\ StrLen(output.rescued["Bauvorhaben"]) >= StrLen(output.sliced["Bauvorhaben"])

\* C10 amended: the rescue pass replaces the applicant (margin 8) and the
\* project description (margin 5) by the candidate only when the candidate
\* beats the current value by more than the margin; otherwise the field
\* keeps its value up to whitespace clean-up, and apart from that clean-up
\* never gets shorter; a sliced applicant of 10 characters with an anchored
\* applicant pattern in the block ends as the rescued candidate.
C10_RescueGatedByMargin ==
    Rescuing =>
        /\ output.rescued["Bauherrschaft"] =
              IF Beats(BhCand, output.sliced["Bauherrschaft"], 8)
              THEN clean_spaces(BhCand)
              ELSE clean_spaces(output.sliced["Bauherrschaft"])
        /\ output.rescued["Bauvorhaben"] =
              IF Beats(BvCand, output.sliced["Bauvorhaben"], 5)
              THEN clean_spaces(BvCand)
              ELSE clean_spaces(output.sliced["Bauvorhaben"])
        /\ StrLen(output.rescued["Bauherrschaft"]) >=
              StrLen(clean_spaces(output.sliced["Bauherrschaft"]))
        /\ StrLen(output.rescued["Bauvorhaben"]) >=
              StrLen(clean_spaces(output.sliced["Bauvorhaben"]))
        /\ (StrLen(output.sliced["Bauherrschaft"]) = 10 /\ BhCand # <<>>) =>
              output.entry.Bauherrschaft = clean_spaces(BhCand)

\* a sliced applicant of 10 characters, an anchored applicant pattern in the
\* block, and the rescued candidate as the final applicant
C10_Witness ==
    /\ Rescuing
    /\ StrLen(output.sliced["Bauherrschaft"]) = 10
    /\ BhCand # <<>>
    /\ output.entry.Bauherrschaft = clean_spaces(BhCand)
    /\ output.entry.Bauherrschaft # output.sliced["Bauherrschaft"]

\* the three unreliability triggers as the specification lists them
TriggerApplicant(fields) == StrLen(fields["Bauherrschaft"]) < MinApplicantLen
TriggerProject(fields) ==
    \/ StrLen(fields["Bauvorhaben"]) < MinProjectLen
    \/ Contains(fields["Bauvorhaben"], <<"Siloan">>)
PositionalCues(block) ==
    /\ Contains(block, <<"Parzelle">>)
    /\ Contains(block, <<"Plan">>)
    /\ Contains(block, <<"B&uuml;nternstrasse">>)
TriggerCues(block, fields) ==
    /\ PositionalCues(block)
    /\ \/ StrLen(fields["Lage"]) < MinLageLen
       \/ ~StartsWithParzelle(fields["Lage"])

\* C11: the rescue pass runs for an entry if and only if one of the three
\* triggers holds: a short applicant, a short or corrupted project
\* description, or the positional cues in the block together with a location
\* that is short or does not start with "Parzelle"; an entry with a long
\* applicant, a long clean project description and a block without the cues
\* is never rescued.
C11_RescueIffTrigger ==
    pc = "parsed" =>
        (needs_rescue(output.block, output.sliced) <=>
            \/ TriggerApplicant(output.sliced)
            \/ TriggerProject(output.sliced)
            \/ TriggerCues(output.block, output.sliced))

\* the entries parsed from the boxes
PrimaryEntries == {parse_entry(boxes[j]) : j \in 1..Len(boxes)}

\* the path is chosen once, at the selection, by the number of usable boxes,
\* and is kept to the end
OnePathStep ==
    /\ pc = "select" => pc' = IF Len(boxes) < 2 THEN "fallback" ELSE "primary"
    /\ pc' \in {"primary", "fallback"} => pc = "select"
    /\ pc = "primary" => pc' = "done_primary"
    /\ pc = "fallback" => pc' = "done_fallback"
    /\ pc \in {"done_primary", "done_fallback"} => pc' = pc

\* C12: each invocation follows exactly one of the two paths: the fallback
\* segmenter is run if and only if fewer than 2 usable boxes are left; with
\* 2 or more boxes the fallback is never run and every output entry is the
\* parse of a primary box.
C12_ExactlyOnePath ==
    /\ [](pc \in {"primary", "done_primary"} =>
             /\ Len(boxes) >= 2
             /\ candidates = <<>>
             /\ \A i \in 1..Len(entries) : entries[i] \in PrimaryEntries)
    /\ [](pc = "done_primary" => \A i \in 1..Len(ret[1]) : ret[1][i] \in PrimaryEntries)
    /\ [](pc \in {"fallback", "done_fallback"} => Len(boxes) < 2)
    /\ [][OnePathStep]_vars

\* two boxes and a labelled segment the fallback would have taken: the call
\* ends on the primary path with entries of the boxes only
C12_Witness ==
    /\ pc = "done_primary"
    /\ Len(boxes) >= 2
    /\ OnlyWurenlos(split_entries_by_labels(page_text[1])) # <<>>
    /\ candidates = <<>>
    /\ Len(ret[1]) = 2

\* the label a matched token stands for, letter case set aside: under re.I
\* the long s is a spelling of s
LabelOfToken(w) ==
    CASE w \in {"BAUHERRSCHAFT", "Bauherr&#383;chaft"} -> "Bauherrschaft"
      [] w = "lage" -> "Lage"
      [] w = "zone" -> "Zone"
      [] OTHER -> w

\* the matches of RE_LABELS_POS in core that stand for the label lab, as
\* indices into the list of all matches
MatchesOfLabel(core, lab) ==
    {k \in 1..Len(RE_LABELS_POS_finditer(core)) :
        LabelOfToken(core[RE_LABELS_POS_finditer(core)[k]]) = lab}

\* the cleaned text between the end of the k-th match and the start of the
\* next match, or the end of the core
ValueAfterMatch(core, k) ==
    LET ms == RE_LABELS_POS_finditer(core) IN
    SliceValue(SubSeq(core,
                      ms[k] + RE_LABELS_POS_at(core, ms[k]),
                      IF k < Len(ms) THEN ms[k + 1] - 1 ELSE Len(core)))

\* C13: every match of a label token, in any letter case, with or without
\* colon, also inside a longer word, is a boundary; a field's value is the
\* cleaned text between the end of the LAST match of its label and the start
\* of the next match (or the end of the core); a label that never matches
\* keeps the empty string.
C13_LastMatchWins ==
    pc = "ret" =>
        \A lab \in LABELS :
            output[1][lab] =
                IF MatchesOfLabel(input, lab) = {} THEN <<>>
                ELSE ValueAfterMatch(input, LastOf(MatchesOfLabel(input, lab)))

\* the word Parzelle stands in s: \bParzelle\b
HasParzelleWord(s) == FirstWordFrom(s, "Parzelle", 1) > 0

\* C14: the normalizer's corrections hold on the returned entry: whether or
\* not the rescue pass ran, the project description of every entry returned
\* by _parse_entry has been cut at "Parzelle" and does not hold that word.
C14_ProjectHoldsNoParzelle ==
    pc = "parsed" => ~HasParzelleWord(output.entry.Bauvorhaben)

\* the segments of the acquired page text, before the label threshold and
\* the municipality filter
PageSegments == SegmentPage(SubParagraphs(collapse_text(page_text[1])))

\* C15: the output never mixes the two detection paths, and a lone box is
\* never parsed: with exactly one municipality-matching box the call takes
\* the fallback path, and its output is the parse of at most the last two
\* segments that match the municipality and hold at least 3 of the 5 labels;
\* it can be empty although one valid box was found.
C15_LoneBoxIsDiscarded ==
    Done =>
        /\ Len(boxes) = 1 => pc = "done_fallback"
        /\ pc = "done_fallback" =>
              /\ ret[1] = ParseAll(LastTwo(candidates))
              /\ \A i \in 1..Len(candidates) :
                    /\ looks_like_wurenlos(candidates[i])
                    /\ EnoughLabels(candidates[i])
                    /\ \E j \in 1..Len(PageSegments) : candidates[i] = PageSegments[j]
        /\ pc = "done_primary" =>
              /\ ret[1] = ParseAll(LastTwo(boxes))
              /\ candidates = <<>>
        /\ Len(ret[1]) <= 2

\* one municipality-matching box on the page, no segment with enough labels:
\* the call returns no entry
C15_Witness ==
    /\ pc = "done_fallback"
    /\ Len(boxes) = 1
    /\ looks_like_wurenlos(boxes[1])
    /\ ret[1] = <<>>

====
